---- MODULE Spec2Model ----
(***************************************************************************)
(* Model of the Square integration handlers of brewvita-site-astro:        *)
(*   src/src/pages/api/orders.ts    create-order handler                   *)
(*   src/src/pages/api/checkout.ts  checkout handler, module-level base    *)
(*   src/unnamed/part_000           checkout handler, per-request base     *)
(*                                                                         *)
(* Strings are sequences of one-character strings, so that trim, the       *)
(* grouping key and the pattern tests are computed as the code computes    *)
(* them.  A JSON number is held in tenths (5 is 0.5, 37 is 3.7).           *)
(***************************************************************************)
EXTENDS Integers, Sequences, FiniteSets, TLC

(***************************************************************************)
(* JSON values as the handlers receive them                                *)
(***************************************************************************)
Undefined == [t |-> "undefined", n |-> 0, s |-> <<>>]

Null == [t |-> "null", n |-> 0, s |-> <<>>]

True == [t |-> "boolean", n |-> 1, s |-> <<>>]

Obj == [t |-> "object", n |-> 0, s |-> <<>>]

Num(tenths) == [t |-> "number", n |-> tenths, s |-> <<>>]

Str(chars) == [t |-> "string", n |-> 0, s |-> chars]

NaN == [nan |-> TRUE, v |-> 0]

Whitespace == {" "}

Digits == <<"0", "1", "2", "3", "4", "5", "6", "7", "8", "9">>

DigitValue(c) == (CHOOSE i \in 1..10 : Digits[i] = c) - 1

IsDigit(c) == \E i \in 1..10 : Digits[i] = c

RECURSIVE TrimStart(_)
TrimStart(s) ==
  IF s # <<>> /\ Head(s) \in Whitespace THEN TrimStart(Tail(s)) ELSE s

RECURSIVE TrimEnd(_)
TrimEnd(s) ==
  IF s # <<>> /\ s[Len(s)] \in Whitespace
  THEN TrimEnd(SubSeq(s, 1, Len(s) - 1))
  ELSE s

\* String.prototype.trim
Trim(s) == TrimEnd(TrimStart(s))

RECURSIVE ParseDigits(_, _)
ParseDigits(s, acc) ==
  IF s = <<>> THEN acc ELSE ParseDigits(Tail(s), acc * 10 + DigitValue(Head(s)))

\* Number(x) of a string: blank is 0, a run of decimal digits is its value,
\* anything else is NaN (signs, fractions, exponents and hex literals are
\* not among the strings the model draws).
StringToNumber(s) ==
  LET u == Trim(s) IN
    IF u = <<>> THEN [nan |-> FALSE, v |-> 0]
    ELSE IF \A i \in 1..Len(u) : IsDigit(u[i])
         THEN [nan |-> FALSE, v |-> 10 * ParseDigits(u, 0)]
         ELSE NaN

\* Number(x): the value in tenths, or NaN
ToNumber(x) ==
  CASE x.t = "number" -> [nan |-> FALSE, v |-> x.n]
    [] x.t = "string" -> StringToNumber(x.s)
    [] x.t = "boolean" -> [nan |-> FALSE, v |-> 10 * x.n]
    [] x.t = "null" -> [nan |-> FALSE, v |-> 0]
    [] OTHER -> NaN

RECURSIVE ToDigits(_)
ToDigits(n) ==
  IF n < 10 THEN <<Digits[n + 1]>>
  ELSE ToDigits(n \div 10) \o <<Digits[(n % 10) + 1]>>

\* String(n) and template interpolation of a non-negative integer
NumberToString(n) == ToDigits(n)

(***************************************************************************)
(* orders.ts: normalizeQuantity, normalizeModifiers, normalizeCartLines    *)
(***************************************************************************)
normalizeQuantity(rawQuantity) ==
  LET parsed == ToNumber(rawQuantity) IN
    IF parsed.nan \/ parsed.v <= 0 THEN 1 ELSE parsed.v \div 10

\* Map.get on a Map held as a sequence of [key, value] pairs in insertion
\* order: the position of key, 0 when absent
MapIndex(map, key) ==
  IF \E i \in 1..Len(map) : map[i].key = key
  THEN CHOOSE i \in 1..Len(map) : map[i].key = key
  ELSE 0

\* (grouped.get(id) || 0) + quantity, then grouped.set(id, ...)
MapAdd(map, key, quantity) ==
  LET i == MapIndex(map, key) IN
    IF i = 0 THEN Append(map, [key |-> key, value |-> 0 + quantity])
    ELSE [map EXCEPT ![i].value = (IF @ = 0 THEN 0 ELSE @) + quantity]

\* Collation ranks of the model's characters: localeCompare (punctuation,
\* then digits, then letters) and the code-unit order of the default sort
LocaleRank(c) ==
  CASE c = " " -> 1 [] c = "," -> 2 [] c = ":" -> 3
    [] IsDigit(c) -> 10 + DigitValue(c)
    [] c = "A" -> 30 [] c = "B" -> 31 [] c = "C" -> 32 [] c = "M" -> 33
    [] c = "x" -> 40
    [] OTHER -> 50

CodeUnit(c) ==
  CASE c = " " -> 32 [] c = "," -> 44
    [] IsDigit(c) -> 48 + DigitValue(c)
    [] c = ":" -> 58
    [] c = "A" -> 65 [] c = "B" -> 66 [] c = "C" -> 67 [] c = "M" -> 77
    [] c = "x" -> 120
    [] OTHER -> 200

RECURSIVE LocaleLess(_, _)
LocaleLess(a, b) ==
  IF b = <<>> THEN FALSE
  ELSE IF a = <<>> THEN TRUE
  ELSE IF LocaleRank(Head(a)) # LocaleRank(Head(b))
       THEN LocaleRank(Head(a)) < LocaleRank(Head(b))
       ELSE LocaleLess(Tail(a), Tail(b))

RECURSIVE CodeUnitLess(_, _)
CodeUnitLess(a, b) ==
  IF b = <<>> THEN FALSE
  ELSE IF a = <<>> THEN TRUE
  ELSE IF CodeUnit(Head(a)) # CodeUnit(Head(b))
       THEN CodeUnit(Head(a)) < CodeUnit(Head(b))
       ELSE CodeUnitLess(Tail(a), Tail(b))

\* stable insertion of one entry into a list sorted by localeCompare
RECURSIVE InsertEntry(_, _)
InsertEntry(sorted, e) ==
  IF sorted = <<>> THEN <<e>>
  ELSE IF LocaleLess(e.catalogObjectId, Head(sorted).catalogObjectId)
       THEN <<e>> \o sorted
       ELSE <<Head(sorted)>> \o InsertEntry(Tail(sorted), e)

RECURSIVE SortEntries(_)
SortEntries(entries) ==
  IF entries = <<>> THEN <<>>
  ELSE InsertEntry(SortEntries(SubSeq(entries, 1, Len(entries) - 1)),
                   entries[Len(entries)])

\* the first loop of normalizeModifiers, over rawLine.modifiers
RECURSIVE GroupStructured(_, _)
GroupStructured(items, grouped) ==
  IF items = <<>> THEN grouped
  ELSE LET modifier == Head(items)
           catalogObjectId ==
             IF modifier.isObject /\ modifier.catalog_object_id.t = "string"
             THEN Trim(modifier.catalog_object_id.s)
             ELSE <<>>
           quantity ==
             normalizeQuantity(IF modifier.isObject THEN modifier.quantity
                               ELSE Undefined)
       IN IF catalogObjectId = <<>> THEN GroupStructured(Tail(items), grouped)
          ELSE GroupStructured(Tail(items),
                               MapAdd(grouped, catalogObjectId, quantity))

\* the second loop of normalizeModifiers, over modifier_catalog_object_ids
RECURSIVE GroupFlat(_, _)
GroupFlat(items, grouped) ==
  IF items = <<>> THEN grouped
  ELSE LET modifierId == Head(items)
           catalogObjectId ==
             IF modifierId.t = "string" THEN Trim(modifierId.s) ELSE <<>>
       IN IF catalogObjectId = <<>> THEN GroupFlat(Tail(items), grouped)
          ELSE GroupFlat(Tail(items), MapAdd(grouped, catalogObjectId, 1))

normalizeModifiers(rawLine) ==
  LET structured ==
        IF rawLine.modifiers.isArray
        THEN GroupStructured(rawLine.modifiers.items, <<>>)
        ELSE <<>>
      grouped ==
        IF Len(structured) = 0 /\ rawLine.modifier_catalog_object_ids.isArray
        THEN GroupFlat(rawLine.modifier_catalog_object_ids.items, structured)
        ELSE structured
  IN SortEntries([i \in 1..Len(grouped) |->
                    [catalogObjectId |-> grouped[i].key,
                     quantity |-> grouped[i].value]])

RECURSIVE Join(_, _)
Join(parts, sep) ==
  IF parts = <<>> THEN <<>>
  ELSE IF Len(parts) = 1 THEN parts[1]
  ELSE parts[1] \o sep \o Join(Tail(parts), sep)

\* `${catalogObjectId}::${entries.map(m => `${m.id}x${m.quantity}`).join(",")}`
LineKey(catalogObjectId, modifierEntries) ==
  catalogObjectId \o <<":", ":">> \o
  Join([i \in 1..Len(modifierEntries) |->
          modifierEntries[i].catalogObjectId \o <<"x">> \o
          NumberToString(modifierEntries[i].quantity)],
       <<",">>)

Threw(message) == [threw |-> TRUE, message |-> message, lines |-> <<>>]

Returned(lines) == [threw |-> FALSE, message |-> "", lines |-> lines]

MergeOverwrite(grouped, i, quantity) ==
  [grouped EXCEPT ![i].value.quantity = quantity]

\* existing.quantity += quantity
Merge(grouped, i, quantity) ==
  [grouped EXCEPT ![i].value.quantity = @ + quantity]

\* the loop of normalizeCartLines from the given position on; reading
\* catalog_object_id off a null entry is a TypeError
RECURSIVE CartLoop(_, _)
CartLoop(cart, grouped) ==
  IF cart = <<>>
  THEN Returned([i \in 1..Len(grouped) |-> grouped[i].value])
  ELSE LET line == Head(cart) IN
    IF line.kind = "null"
    THEN Threw("Cannot read properties of null")
    ELSE LET catalogObjectId ==
               IF line.kind = "object" /\ line.catalog_object_id.t = "string"
               THEN Trim(line.catalog_object_id.s)
               ELSE <<>>
         IN IF catalogObjectId = <<>> THEN CartLoop(Tail(cart), grouped)
            ELSE LET modifierEntries == normalizeModifiers(line)
                     quantity == normalizeQuantity(line.quantity)
                     key == LineKey(catalogObjectId, modifierEntries)
                     existing == MapIndex(grouped, key)
                 IN IF existing # 0
                    THEN CartLoop(Tail(cart), Merge(grouped, existing, quantity))
                    ELSE CartLoop(Tail(cart),
                           Append(grouped,
                             [key |-> key,
                              value |-> [catalogObjectId |-> catalogObjectId,
                                         modifierEntries |-> modifierEntries,
                                         quantity |-> quantity]]))

normalizeCartLines(cart) == CartLoop(cart, <<>>)

(***************************************************************************)
(* checkout.ts and part_000: normalizeCartLines (flat modifier IDs only)   *)
(***************************************************************************)
\* .filter(typeof id === "string" && id.trim().length > 0).map(trim), then
\* new Set(...): first occurrences in insertion order
RECURSIVE DistinctTrimmed(_, _)
DistinctTrimmed(items, seen) ==
  IF items = <<>> THEN seen
  ELSE LET modifierId == Head(items)
           keep == modifierId.t = "string" /\ Len(Trim(modifierId.s)) > 0
           id == Trim(modifierId.s)
       IN IF keep /\ ~(\E i \in 1..Len(seen) : seen[i] = id)
          THEN DistinctTrimmed(Tail(items), Append(seen, id))
          ELSE DistinctTrimmed(Tail(items), seen)

RECURSIVE InsertId(_, _)
InsertId(sorted, id) ==
  IF sorted = <<>> THEN <<id>>
  ELSE IF CodeUnitLess(id, Head(sorted))
       THEN <<id>> \o sorted
       ELSE <<Head(sorted)>> \o InsertId(Tail(sorted), id)

\* Array.prototype.sort() with no comparator
RECURSIVE SortIds(_)
SortIds(ids) ==
  IF ids = <<>> THEN <<>>
  ELSE InsertId(SortIds(SubSeq(ids, 1, Len(ids) - 1)), ids[Len(ids)])

\* `${catalogObjectId}::${modifierIds.join(",")}`
CheckoutLineKey(catalogObjectId, modifierIds) ==
  catalogObjectId \o <<":", ":">> \o Join(modifierIds, <<",">>)

RECURSIVE CheckoutCartLoop(_, _)
CheckoutCartLoop(rawCart, grouped) ==
  IF rawCart = <<>>
  THEN Returned([i \in 1..Len(grouped) |-> grouped[i].value])
  ELSE LET line == Head(rawCart) IN
    IF line.kind = "null"
    THEN Threw("Cannot read properties of null")
    ELSE LET catalogObjectId ==
               IF line.kind = "object" /\ line.catalog_object_id.t = "string"
               THEN Trim(line.catalog_object_id.s)
               ELSE <<>>
         IN IF catalogObjectId = <<>>
            THEN CheckoutCartLoop(Tail(rawCart), grouped)
            ELSE LET modifierIds ==
                       IF line.modifier_catalog_object_ids.isArray
                       THEN SortIds(DistinctTrimmed(
                              line.modifier_catalog_object_ids.items, <<>>))
                       ELSE <<>>
                     quantity == normalizeQuantity(line.quantity)
                     key == CheckoutLineKey(catalogObjectId, modifierIds)
                     existing == MapIndex(grouped, key)
                 IN IF existing # 0
                    THEN CheckoutCartLoop(Tail(rawCart),
                                          Merge(grouped, existing, quantity))
                    ELSE CheckoutCartLoop(Tail(rawCart),
                           Append(grouped,
                             [key |-> key,
                              value |-> [catalogObjectId |-> catalogObjectId,
                                         modifierIds |-> modifierIds,
                                         quantity |-> quantity]]))

checkoutNormalizeCartLines(rawCart) == CheckoutCartLoop(rawCart, <<>>)

(***************************************************************************)
(* Raw carts the normalizers are applied to                                *)
(***************************************************************************)
MaxCart == 2

NoArray == [isArray |-> FALSE, items |-> <<>>]

Arr(items) == [isArray |-> TRUE, items |-> items]

Mod(id, quantity) ==
  [isObject |-> TRUE, catalog_object_id |-> id, quantity |-> quantity]

NullMod ==
  [isObject |-> FALSE, catalog_object_id |-> Undefined, quantity |-> Undefined]

Line(id, quantity, modifiers, flat) ==
  [kind |-> "object", catalog_object_id |-> id, quantity |-> quantity,
   modifiers |-> modifiers, modifier_catalog_object_ids |-> flat]

NullLine ==
  [kind |-> "null", catalog_object_id |-> Undefined, quantity |-> Undefined,
   modifiers |-> NoArray, modifier_catalog_object_ids |-> NoArray]

PrimitiveLine ==
  [kind |-> "primitive", catalog_object_id |-> Undefined,
   quantity |-> Undefined, modifiers |-> NoArray,
   modifier_catalog_object_ids |-> NoArray]

IdA == Str(<<"A">>)

IdB == Str(<<"B">>)

IdC == Str(<<"C">>)

CatalogIdValues ==
  {IdA, Str(<<" ", "A", " ">>), IdB, Str(<<"A", ":">>), Str(<<" ">>),
   Str(<<>>), Undefined, Num(70)}

QuantityValues ==
  {Undefined, Null, Num(5), Num(20), Num(37), Num(-50), Num(0),
   Str(<<"a", "b", "c">>), Str(<<"2">>)}

StructuredValues ==
  {Arr(<<Mod(IdB, Num(10))>>),
   Arr(<<Mod(IdB, Num(10)), Mod(IdC, Num(10))>>),
   Arr(<<Mod(IdC, Num(10)), Mod(IdB, Num(10))>>),
   Arr(<<Mod(Str(<<"B", "x", "1", ",", "C">>), Num(10))>>),
   Arr(<<Mod(Str(<<":", "B">>), Num(10))>>),
   Arr(<<Mod(IdB, Num(5))>>),
   Arr(<<Mod(IdB, Num(10)), Mod(IdB, Num(20))>>),
   Arr(<<NullMod>>)}

FlatValues ==
  {Arr(<<IdB>>), Arr(<<IdB, IdC>>), Arr(<<IdC, IdB>>), Arr(<<IdB, IdB>>),
   Arr(<<Str(<<"B", ",", "C">>)>>), Arr(<<Str(<<" ", "B">>), Num(10)>>)}

CartLineValues ==
  {NullLine, PrimitiveLine}
  \cup {Line(id, Num(10), NoArray, NoArray) : id \in CatalogIdValues}
  \cup {Line(IdA, q, NoArray, NoArray) : q \in QuantityValues}
  \cup {Line(IdA, Num(10), m, NoArray) : m \in StructuredValues}
  \cup {Line(IdA, Num(10), NoArray, f) : f \in FlatValues}
  \cup {Line(Str(<<"A", ":">>), Num(10), Arr(<<Mod(IdB, Num(10))>>), NoArray),
        Line(IdA, Num(20), Arr(<<>>), Arr(<<IdB>>)),
        Line(IdA, Num(20), Arr(<<NullMod>>), Arr(<<IdB>>)),
        Line(IdA, Num(20), Arr(<<Mod(IdB, Num(10))>>), Arr(<<IdC>>))}

Carts == UNION {[1..n -> CartLineValues] : n \in 0..MaxCart}

\* a normalized line of orders.ts sent back in the wire field names
OrdersWire(line) ==
  Line(Str(line.catalogObjectId), Num(10 * line.quantity),
       Arr([i \in 1..Len(line.modifierEntries) |->
              Mod(Str(line.modifierEntries[i].catalogObjectId),
                  Num(10 * line.modifierEntries[i].quantity))]),
       NoArray)

\* a normalized line of the checkout handlers sent back in the wire names
CheckoutWire(line) ==
  Line(Str(line.catalogObjectId), Num(10 * line.quantity), NoArray,
       Arr([i \in 1..Len(line.modifierIds) |-> Str(line.modifierIds[i])]))

(***************************************************************************)
(* Configuration: getEnv, resolveSquareEnvironment, getSquareApiBase       *)
(***************************************************************************)
UpperCase ==
  <<"A", "B", "C", "D", "E", "F", "G", "H", "I", "J", "K", "L", "M",
    "N", "O", "P", "Q", "R", "S", "T", "U", "V", "W", "X", "Y", "Z">>

LowerCase ==
  <<"a", "b", "c", "d", "e", "f", "g", "h", "i", "j", "k", "l", "m",
    "n", "o", "p", "q", "r", "s", "t", "u", "v", "w", "x", "y", "z">>

\* String.prototype.toLowerCase
ToLowerCase(s) ==
  [i \in 1..Len(s) |->
     IF \E k \in 1..Len(UpperCase) : UpperCase[k] = s[i]
     THEN LowerCase[CHOOSE k \in 1..Len(UpperCase) : UpperCase[k] = s[i]]
     ELSE s[i]]

\* String.prototype.startsWith
StartsWith(s, prefix) ==
  Len(s) >= Len(prefix) /\ SubSeq(s, 1, Len(prefix)) = prefix

\* String.prototype.includes
Includes(s, part) ==
  \E i \in 1..(Len(s) - Len(part) + 1) :
    SubSeq(s, i, i + Len(part) - 1) = part

ProductionFlag == <<"p", "r", "o", "d", "u", "c", "t", "i", "o", "n">>

SandboxFlag == <<"s", "a", "n", "d", "b", "o", "x">>

SandboxPrefix == <<"s", "a", "n", "d", "b", "o", "x", "-">>

SandboxMarker == <<"s", "q", "0", "i", "d", "b", "-">>

ProductionMarker == <<"s", "q", "0", "i", "d", "p", "-">>

ProductionBase == "https://connect.squareup.com"

SandboxBase == "https://connect.squareupsandbox.com"

EnvKeys ==
  {"SQUARE_ENVIRONMENT", "SQUARE_APP_ID", "PUBLIC_SQUARE_APP_ID",
   "SQUARE_ACCESS_TOKEN", "SQUARE_LOCATION_ID"}

\* JavaScript truthiness of a JSON value
Truthy(x) ==
  CASE x.t = "string" -> x.s # <<>>
    [] x.t = "number" -> x.n # 0
    [] x.t = "boolean" -> x.n = 1
    [] x.t = "object" -> TRUE
    [] OTHER -> FALSE

\* locals?.runtime?.env?.[key] ?? import.meta.env[key]
getEnv(e, key) ==
  IF e.runtime[key].t \notin {"undefined", "null"} THEN e.runtime[key]
  ELSE e.process[key]

\* a || b
OrElse(a, b) == IF Truthy(a) THEN a ELSE b

resolveSquareEnvironment(e) ==
  LET explicitEnvironment ==
        ToLowerCase(OrElse(getEnv(e, "SQUARE_ENVIRONMENT"), Str(<<>>)).s)
      appId ==
        OrElse(getEnv(e, "SQUARE_APP_ID"),
               OrElse(getEnv(e, "PUBLIC_SQUARE_APP_ID"), Str(<<>>)))
      hasSandboxAppId ==
        /\ appId.t = "string"
        /\ StartsWith(appId.s, SandboxPrefix) \/ Includes(appId.s, SandboxMarker)
      hasProductionAppId ==
        appId.t = "string" /\ Includes(appId.s, ProductionMarker)
  IN IF hasSandboxAppId THEN "sandbox"
     ELSE IF hasProductionAppId THEN "production"
     ELSE IF explicitEnvironment = ProductionFlag THEN "production"
     ELSE "sandbox"

getSquareApiBase(e) ==
  IF resolveSquareEnvironment(e) = "production" THEN ProductionBase
  ELSE SandboxBase

\* checkout.ts: the base is fixed when the module is loaded, from the
\* process environment's SQUARE_ENVIRONMENT alone
SQUARE_API_BASE(e) ==
  LET squareEnvironment ==
        ToLowerCase(OrElse(e.process["SQUARE_ENVIRONMENT"],
                           Str(SandboxFlag)).s)
  IN IF squareEnvironment = ProductionFlag THEN ProductionBase
     ELSE SandboxBase

\* the base, credential and location override each handler works with
ApiBase(h, e) ==
  IF h = "checkoutStatic" THEN SQUARE_API_BASE(e) ELSE getSquareApiBase(e)

AccessToken(h, e) ==
  IF h = "checkoutStatic" THEN e.process["SQUARE_ACCESS_TOKEN"]
  ELSE getEnv(e, "SQUARE_ACCESS_TOKEN")

ConfiguredLocation(h, e) ==
  IF h = "checkoutStatic" THEN e.process["SQUARE_LOCATION_ID"]
  ELSE getEnv(e, "SQUARE_LOCATION_ID")

(***************************************************************************)
(* Requests, environments and gateway replies the handlers are run on      *)
(***************************************************************************)
MaxAttempts == 2

Handlers == {"orders", "checkoutStatic", "checkout"}

NoEnv == [k \in EnvKeys |-> Undefined]

TokenValue == Str(<<"T">>)

AppIdValues ==
  {Undefined,
   Str(SandboxPrefix \o ProductionMarker \o <<"1">>),
   Str(ProductionMarker \o <<"1">>),
   Str(<<"1">> \o SandboxMarker)}

FlagValues ==
  {Undefined, Str(ProductionFlag),
   Str(<<"P", "r", "o", "d", "u", "c", "t", "i", "o", "n">>),
   Str(SandboxFlag)}

Environments ==
  {[runtime |-> NoEnv,
    process |-> [NoEnv EXCEPT !["SQUARE_ACCESS_TOKEN"] = TokenValue,
                              !["SQUARE_APP_ID"] = app,
                              !["SQUARE_ENVIRONMENT"] = flag]] :
     app \in AppIdValues, flag \in FlagValues}
  \cup
  {\* a configured location, no lookup
   [runtime |-> NoEnv,
    process |-> [NoEnv EXCEPT !["SQUARE_ACCESS_TOKEN"] = TokenValue,
                              !["SQUARE_LOCATION_ID"] = Str(<<"L", "0">>)]],
   \* no credential, with and without a configured location
   [runtime |-> NoEnv,
    process |-> [NoEnv EXCEPT !["SQUARE_LOCATION_ID"] = Str(<<"L", "0">>)]],
   [runtime |-> NoEnv, process |-> NoEnv],
   \* the runtime-scoped source overrides the process-level one
   [runtime |-> [NoEnv EXCEPT !["SQUARE_ACCESS_TOKEN"] = TokenValue,
                              !["SQUARE_ENVIRONMENT"] = Str(ProductionFlag),
                              !["SQUARE_LOCATION_ID"] = Str(<<"L", "9">>)],
    process |-> [NoEnv EXCEPT !["SQUARE_ENVIRONMENT"] = Str(SandboxFlag)]],
   \* an empty runtime app id falls through to the public one
   [runtime |-> [NoEnv EXCEPT !["SQUARE_APP_ID"] = Str(<<>>)],
    process |-> [NoEnv EXCEPT !["SQUARE_ACCESS_TOKEN"] = TokenValue,
                              !["SQUARE_APP_ID"] = Str(SandboxMarker),
                              !["PUBLIC_SQUARE_APP_ID"] =
                                 Str(ProductionMarker \o <<"1">>)]]}

Body(sourceId, c, email) ==
  [parsed |-> TRUE, sourceId |-> sourceId, cart |-> c,
   buyerEmailAddress |-> email]

\* request.json() rejected: .catch(() => null)
UnparseableBody ==
  [parsed |-> FALSE, sourceId |-> Undefined, cart |-> NoArray,
   buyerEmailAddress |-> Undefined]

ValidLine == Line(IdA, Num(10), NoArray, NoArray)

NoLineCarts ==
  {NoArray, Arr(<<>>), Arr(<<NullLine>>), Arr(<<PrimitiveLine>>),
   Arr(<<Line(Str(<<" ">>), Num(10), NoArray, NoArray)>>),
   Arr(<<Line(Undefined, Num(10), NoArray, NoArray)>>),
   Arr(<<PrimitiveLine, Line(Str(<<>>), Num(20), NoArray, NoArray)>>)}

LineCarts ==
  {Arr(<<ValidLine>>),
   Arr(<<Line(IdA, Num(5), NoArray, NoArray)>>),
   Arr(<<Line(IdA, Num(20), Arr(<<Mod(IdB, Num(20))>>), Arr(<<IdC>>)),
         Line(IdB, Num(10), NoArray, Arr(<<IdC, IdB, IdC>>))>>),
   Arr(<<ValidLine, NullLine>>)}

SourceIdValues ==
  {Str(<<"s">>), Str(<<" ", "s", " ">>), Str(<<" ">>), Undefined, Num(10)}

EmailValues == {Undefined, Str(<<" ", "e">>), Str(<<" ">>)}

Bodies ==
  {UnparseableBody}
  \cup {Body(Str(<<"s">>), c, Undefined) : c \in NoLineCarts \cup LineCarts}
  \cup {Body(sid, Arr(<<ValidLine>>), em) :
          sid \in SourceIdValues, em \in EmailValues}
  \cup {Body(sid, c, Undefined) :
          sid \in {Undefined, Str(<<" ">>), Num(10)},
          c \in {NoArray, Arr(<<>>), Arr(<<NullLine>>)}}

\* what the gateway call comes back with: fetch rejects, response.json()
\* rejects, or a response with its ok flag, status and parsed payload
NoErrors == [present |-> FALSE, isArray |-> FALSE, items |-> <<>>]

NoLocations == [present |-> FALSE, items |-> <<>>]

NoOrder ==
  [present |-> FALSE, id |-> Undefined, state |-> Undefined,
   hasTotal |-> FALSE, amount |-> Undefined, currency |-> Undefined]

NoPayment ==
  [present |-> FALSE, id |-> Undefined, status |-> Undefined,
   receipt_url |-> Undefined]

EmptyPayload ==
  [isNull |-> FALSE, errors |-> NoErrors, locations |-> NoLocations,
   order |-> NoOrder, payment |-> NoPayment]

NullPayload == [EmptyPayload EXCEPT !.isNull = TRUE]

Rejected == [kind |-> "reject", ok |-> FALSE, status |-> 0, payload |-> NullPayload]

BadJson == [kind |-> "badjson", ok |-> TRUE, status |-> 200, payload |-> NullPayload]

HttpError(status, payload) ==
  [kind |-> "response", ok |-> FALSE, status |-> status, payload |-> payload]

HttpOk(payload) ==
  [kind |-> "response", ok |-> TRUE, status |-> 200, payload |-> payload]

FailureReplies ==
  {Rejected, BadJson,
   HttpError(400, [EmptyPayload EXCEPT !.errors =
      [present |-> TRUE, isArray |-> TRUE,
       items |-> <<[detail |-> "Card declined.", code |-> "CARD_DECLINED"],
                   [detail |-> "", code |-> "BAD_REQUEST"]>>]]),
   HttpError(500, [EmptyPayload EXCEPT !.errors =
      [present |-> TRUE, isArray |-> TRUE,
       items |-> <<[detail |-> "", code |-> ""]>>]]),
   HttpError(401, [EmptyPayload EXCEPT !.errors =
      [present |-> TRUE, isArray |-> FALSE, items |-> <<>>]]),
   HttpError(503, NullPayload)}

Location(status, id) == [status |-> status, id |-> id]

LocationsReplies ==
  FailureReplies \cup
  {HttpOk(NullPayload), HttpOk(EmptyPayload),
   HttpOk([EmptyPayload EXCEPT !.locations =
     [present |-> TRUE,
      items |-> <<Location("INACTIVE", Str(<<"L", "1">>))>>]]),
   HttpOk([EmptyPayload EXCEPT !.locations =
     [present |-> TRUE,
      items |-> <<Location("INACTIVE", Str(<<"L", "1">>)),
                  Location("ACTIVE", Str(<<"L", "2">>)),
                  Location("ACTIVE", Str(<<"L", "3">>))>>]]),
   HttpOk([EmptyPayload EXCEPT !.locations =
     [present |-> TRUE, items |-> <<Location("ACTIVE", Undefined)>>]])}

Order(id, amount, currency) ==
  [present |-> TRUE, id |-> id, state |-> Str(<<"O", "P", "E", "N">>),
   hasTotal |-> TRUE, amount |-> amount, currency |-> currency]

Usd == Str(<<"U", "S", "D">>)

OrderIdValue == Str(<<"O", "1">>)

AmountValues ==
  {Num(12500), Num(0), Num(-100), Undefined, Null, True,
   Str(<<"1", "0", "0">>), Str(<<"a", "b", "c">>)}

OrderReplies ==
  FailureReplies \cup
  {HttpOk(NullPayload), HttpOk(EmptyPayload)}
  \cup {HttpOk([EmptyPayload EXCEPT !.order = Order(OrderIdValue, a, Usd)]) :
          a \in AmountValues}
  \cup {HttpOk([EmptyPayload EXCEPT !.order =
                  Order(OrderIdValue, Num(12500), Undefined)]),
        HttpOk([EmptyPayload EXCEPT !.order =
                  Order(OrderIdValue, Num(12500), Null)]),
        HttpOk([EmptyPayload EXCEPT !.order =
                  Order(OrderIdValue, Num(12500), Str(<<"C", "A", "D">>))]),
        HttpOk([EmptyPayload EXCEPT !.order =
                  Order(Undefined, Num(12500), Usd)]),
        HttpOk([EmptyPayload EXCEPT !.order =
                  [Order(OrderIdValue, Undefined, Undefined)
                     EXCEPT !.hasTotal = FALSE]])}

PaymentReplies ==
  FailureReplies \cup
  {HttpOk(EmptyPayload),
   HttpOk([EmptyPayload EXCEPT !.payment =
     [present |-> TRUE, id |-> Str(<<"P", "1">>),
      status |-> Str(<<"C", "O", "M", "P", "L", "E", "T", "E", "D">>),
      receipt_url |-> Str(<<"u">>)]])}

VARIABLES
  variant, cart, npc, out, again,
  handler, env, body, attempt, hpc, lcl, calls, replies, responses,
  escaped, remote, uuids

nvars == <<variant, cart, npc, out, again>>

reqvars == <<handler, env, body>>

hvars ==
  <<handler, env, body, attempt, hpc, lcl, calls, replies, responses,
    escaped, remote, uuids>>

vars == <<nvars, hvars>>

\* the handler's local constants before it has computed them
NoLocals ==
  [sourceId |-> <<>>, normalizedLines |-> <<>>, buyerEmailAddress |-> Null,
   locationId |-> Null, orderId |-> Undefined, amount |-> NaN,
   currency |-> <<>>]

(***************************************************************************)
(* The normalizers applied to raw carts                                    *)
(***************************************************************************)
Normalized(v, c) ==
  IF v = "orders" THEN normalizeCartLines(c) ELSE checkoutNormalizeCartLines(c)

InitNorm ==
  /\ variant \in {"orders", "checkout"}
  /\ cart \in Carts
  /\ npc = "call"
  /\ out = <<>>
  /\ again = <<>>
  /\ handler = "orders"
  /\ env = [runtime |-> NoEnv, process |-> NoEnv]
  /\ body = UnparseableBody
  /\ attempt = 1
  /\ hpc = "idle"
  /\ lcl = NoLocals
  /\ calls = <<>>
  /\ replies = <<>>
  /\ responses = <<>>
  /\ escaped = FALSE
  /\ remote = [orders |-> 0, payments |-> 0, keys |-> {}]
  /\ uuids = 0

\* normalizeCartLines(rawCart) returns its lines
NormalizeReturns ==
  /\ npc = "call"
  /\ ~Normalized(variant, cart).threw
  /\ out' = Normalized(variant, cart).lines
  /\ npc' = "returned"
  /\ UNCHANGED <<variant, cart, again, hvars>>

\* normalizeCartLines(rawCart) throws on a null entry
NormalizeThrows ==
  /\ npc = "call"
  /\ Normalized(variant, cart).threw
  /\ npc' = "threw"
  /\ UNCHANGED <<variant, cart, out, again, hvars>>

\* the returned lines are normalized once more
NormalizeAgain ==
  /\ npc = "returned"
  /\ again' = Normalized(variant,
                         [i \in 1..Len(out) |->
                            IF variant = "orders" THEN OrdersWire(out[i])
                            ELSE CheckoutWire(out[i])]).lines
  /\ npc' = "again"
  /\ UNCHANGED <<variant, cart, out, hvars>>

NextNorm == NormalizeReturns \/ NormalizeThrows \/ NormalizeAgain

SpecNorm == InitNorm /\ [][NextNorm]_vars

(***************************************************************************)
(* squareRequest and the POST handlers                                     *)
(***************************************************************************)
Error(message) == [isError |-> TRUE, message |-> message]

RECURSIVE JoinMessages(_)
JoinMessages(parts) ==
  IF parts = <<>> THEN ""
  ELSE IF Len(parts) = 1 THEN parts[1]
  ELSE parts[1] \o ", " \o JoinMessages(Tail(parts))

\* errors.map(e => e.detail || e.code).filter(Boolean)
RECURSIVE ErrorTexts(_)
ErrorTexts(items) ==
  IF items = <<>> THEN <<>>
  ELSE LET text == IF Head(items).detail # "" THEN Head(items).detail
                   ELSE Head(items).code
       IN IF text = "" THEN ErrorTexts(Tail(items))
          ELSE <<text>> \o ErrorTexts(Tail(items))

\* the message of the Error squareRequest throws on a non-ok response
ErrorDetails(reply) ==
  LET joined ==
        IF reply.payload.isNull \/ ~reply.payload.errors.present THEN ""
        ELSE JoinMessages(ErrorTexts(reply.payload.errors.items))
  IN IF joined # "" THEN joined
     ELSE "Square API error (" \o ToString(reply.status) \o ")"

SquareRequestThrowsIgnoringStatus(reply) == reply.kind # "response"

\* whether squareRequest throws once the fetch has settled
SquareRequestThrows(reply) == reply.kind # "response" \/ ~reply.ok

\* what it throws
SquareRequestError(reply) ==
  CASE reply.kind = "reject" -> Error("fetch failed")
    [] reply.kind = "badjson" -> Error("Unexpected token < in JSON")
    [] ~reply.payload.isNull /\ reply.payload.errors.present
         /\ ~reply.payload.errors.isArray ->
         Error("payload?.errors?.map is not a function")
    [] OTHER -> Error(ErrorDetails(reply))

Fallback(h) ==
  IF h = "orders" THEN "Unable to create order." ELSE "Checkout failed."

\* createJsonResponse / jsonResponse returned from the handler
Respond(status, responseBody) ==
  /\ responses' = Append(responses, [status |-> status, body |-> responseBody])
  /\ hpc' = "done"
  /\ escaped' = escaped

CatchRethrows(error) ==
  /\ responses' = responses
  /\ hpc' = "done"
  /\ escaped' = TRUE

\* the handler's catch block
Catch(error) ==
  Respond(500, [error |-> IF error.isError THEN error.message
                          ELSE Fallback(handler)])

\* lineItems of the create-order payload
LineItems(h, lines) ==
  [i \in 1..Len(lines) |->
     [catalog_object_id |-> lines[i].catalogObjectId,
      quantity |-> NumberToString(lines[i].quantity),
      modifiers |->
        IF h = "orders"
        THEN [m \in 1..Len(lines[i].modifierEntries) |->
                [catalog_object_id |-> lines[i].modifierEntries[m].catalogObjectId,
                 quantity |-> NumberToString(lines[i].modifierEntries[m].quantity)]]
        ELSE [m \in 1..Len(lines[i].modifierIds) |->
                [catalog_object_id |-> lines[i].modifierIds[m],
                 quantity |-> <<"1">>]]]]

\* crypto.randomUUID(): a value no earlier call returned
randomUUID == uuids + 1

OutboundCall(path, method, payload) ==
  [path |-> path, method |-> method, base |-> ApiBase(handler, env),
   payload |-> payload]

\* from the resolved location to the create-order fetch
CreateOrder(l, locationId) ==
  /\ lcl' = [l EXCEPT !.locationId = locationId]
  /\ uuids' = uuids + 1
  /\ IF ~Truthy(AccessToken(handler, env))
     THEN Catch(Error("Missing SQUARE_ACCESS_TOKEN.")) /\ calls' = calls
     ELSE /\ calls' = Append(calls,
               OutboundCall("/v2/orders", "POST",
                 [idempotency_key |-> randomUUID,
                  order |-> [location_id |-> locationId,
                             line_items |-> LineItems(handler,
                                                      l.normalizedLines)]]))
          /\ hpc' = "awaitOrder"
          /\ UNCHANGED <<responses, escaped>>

RequestSourceIdUntrimmed(b) ==
  IF b.parsed /\ b.sourceId.t = "string" THEN b.sourceId.s ELSE <<>>

\* typeof body?.sourceId === "string" ? body.sourceId.trim() : ""
RequestSourceId(b) ==
  IF b.parsed /\ b.sourceId.t = "string" THEN Trim(b.sourceId.s) ELSE <<>>

\* POST up to its first await of the gateway, or to its response
Receive ==
  /\ hpc = "start"
  /\ UNCHANGED <<nvars, reqvars, attempt, replies, remote>>
  /\ LET sourceId == RequestSourceId(body)
         rawCart == IF body.parsed /\ body.cart.isArray THEN body.cart.items
                    ELSE <<>>
         normalized ==
           Normalized(IF handler = "orders" THEN "orders" ELSE "checkout",
                      rawCart)
         buyerEmailAddress ==
           IF body.parsed /\ body.buyerEmailAddress.t = "string"
              /\ Trim(body.buyerEmailAddress.s) # <<>>
           THEN Str(Trim(body.buyerEmailAddress.s)) ELSE Null
         l == [NoLocals EXCEPT !.sourceId = sourceId,
                               !.normalizedLines = normalized.lines,
                               !.buyerEmailAddress = buyerEmailAddress]
         configured == ConfiguredLocation(handler, env)
     IN IF handler # "orders" /\ sourceId = <<>>
        THEN /\ Respond(400, [error |-> "Missing payment source token."])
             /\ UNCHANGED <<lcl, calls, uuids>>
        ELSE IF normalized.threw
        THEN /\ Catch(Error(normalized.message))
             /\ UNCHANGED <<lcl, calls, uuids>>
        ELSE IF Len(normalized.lines) = 0
        THEN /\ Respond(400, [error |-> "Cart is empty or invalid."])
             /\ UNCHANGED <<lcl, calls, uuids>>
        ELSE IF Truthy(configured) THEN CreateOrder(l, configured)
        ELSE IF ~Truthy(AccessToken(handler, env))
        THEN /\ Catch(Error("Missing SQUARE_ACCESS_TOKEN."))
             /\ lcl' = l
             /\ UNCHANGED <<calls, uuids>>
        ELSE /\ calls' = Append(calls,
                  OutboundCall("/v2/locations", "GET", <<>>))
             /\ hpc' = "awaitLocations"
             /\ lcl' = l
             /\ UNCHANGED <<responses, escaped, uuids>>

\* the remote service applies an accepted call once per idempotency key
RemoteApply(r, kind, key, reply) ==
  IF reply.kind = "response" /\ reply.ok /\ key \notin r.keys
  THEN [r EXCEPT ![kind] = @ + 1, !.keys = @ \cup {key}]
  ELSE r

\* resolveLocationId after its list-locations call has settled
LocationsReply ==
  /\ hpc = "awaitLocations"
  /\ UNCHANGED <<nvars, reqvars, attempt, remote>>
  /\ \E reply \in LocationsReplies :
       /\ replies' = Append(replies, reply)
       /\ IF SquareRequestThrows(reply)
          THEN /\ Catch(SquareRequestError(reply))
               /\ UNCHANGED <<lcl, calls, uuids>>
          ELSE IF reply.payload.isNull
          THEN /\ Catch(Error("Cannot read properties of null"))
               /\ UNCHANGED <<lcl, calls, uuids>>
          ELSE LET items == reply.payload.locations.items
                   active == {i \in 1..Len(items) : items[i].status = "ACTIVE"}
                   first == CHOOSE i \in active : \A j \in active : i <= j
                   locationId ==
                     IF active # {} /\ Truthy(items[first].id)
                     THEN items[first].id ELSE Null
               IN IF ~Truthy(locationId)
                  THEN /\ Respond(500,
                            [error |-> "No active Square location is configured."])
                       /\ UNCHANGED <<lcl, calls, uuids>>
                  ELSE CreateOrder(lcl, locationId)

OrNull(x) == IF Truthy(x) THEN x ELSE Null

TotalIsInvalidAllowingZero(orderId, amount) ==
  ~Truthy(orderId) \/ amount.nan \/ amount.v < 0

\* !orderId || !Number.isFinite(amount) || amount <= 0
TotalIsInvalid(orderId, amount) ==
  ~Truthy(orderId) \/ amount.nan \/ amount.v <= 0

PaymentRequestInUsd(l, orderId, amount, currency) ==
  [source_id |-> l.sourceId,
   idempotency_key |-> randomUUID,
   location_id |-> l.locationId,
   amount_money |-> [amount |-> amount.v, currency |-> <<"U", "S", "D">>],
   order_id |-> orderId,
   autocomplete |-> TRUE,
   buyer_email_address |-> l.buyerEmailAddress]

\* the JSON body of the create-payment call
PaymentRequest(l, orderId, amount, currency) ==
  [source_id |-> l.sourceId,
   idempotency_key |-> randomUUID,
   location_id |-> l.locationId,
   amount_money |-> [amount |-> amount.v, currency |-> currency],
   order_id |-> orderId,
   autocomplete |-> TRUE,
   buyer_email_address |-> l.buyerEmailAddress]

\* from a settled create-order call to the response (orders.ts) or to the
\* payment fetch (checkout handlers)
OrderReply ==
  /\ hpc = "awaitOrder"
  /\ UNCHANGED <<nvars, reqvars, attempt>>
  /\ \E reply \in OrderReplies :
       /\ replies' = Append(replies, reply)
       /\ remote' = RemoteApply(remote, "orders",
                                calls[Len(calls)].payload.idempotency_key,
                                reply)
       /\ IF SquareRequestThrows(reply)
          THEN /\ Catch(SquareRequestError(reply))
               /\ UNCHANGED <<lcl, calls, uuids>>
          ELSE LET order == IF reply.payload.isNull THEN NoOrder
                            ELSE reply.payload.order
                   orderId == order.id
                   amount == ToNumber(IF order.hasTotal THEN order.amount
                                      ELSE Undefined)
                   currency == IF order.hasTotal /\ order.currency.t = "string"
                               THEN order.currency.s ELSE <<"U", "S", "D">>
               IN IF handler = "orders"
                  THEN /\ Respond(200,
                            [orderId |-> OrNull(order.id),
                             state |-> OrNull(order.state),
                             locationId |-> lcl.locationId,
                             totalMoney |->
                               IF order.hasTotal
                               THEN [amount |-> order.amount,
                                     currency |-> order.currency]
                               ELSE Null,
                             order |-> IF order.present THEN order ELSE Null])
                       /\ UNCHANGED <<lcl, calls, uuids>>
                  ELSE IF TotalIsInvalid(orderId, amount)
                  THEN /\ Catch(Error("Unable to determine order total for payment."))
                       /\ UNCHANGED <<lcl, calls, uuids>>
                  ELSE /\ lcl' = [lcl EXCEPT !.orderId = orderId,
                                             !.amount = amount,
                                             !.currency = currency]
                       /\ uuids' = uuids + 1
                       /\ IF ~Truthy(AccessToken(handler, env))
                          THEN /\ Catch(Error("Missing SQUARE_ACCESS_TOKEN."))
                               /\ calls' = calls
                          ELSE /\ calls' = Append(calls,
                                    OutboundCall("/v2/payments", "POST",
                                      PaymentRequest(lcl, orderId, amount,
                                                     currency)))
                               /\ hpc' = "awaitPayment"
                               /\ UNCHANGED <<responses, escaped>>

\* from a settled payment call to the response
PaymentReply ==
  /\ hpc = "awaitPayment"
  /\ UNCHANGED <<nvars, reqvars, attempt, lcl, calls, uuids>>
  /\ \E reply \in PaymentReplies :
       /\ replies' = Append(replies, reply)
       /\ remote' = RemoteApply(remote, "payments",
                                calls[Len(calls)].payload.idempotency_key,
                                reply)
       /\ IF SquareRequestThrows(reply)
          THEN Catch(SquareRequestError(reply))
          ELSE LET payment == IF reply.payload.isNull THEN NoPayment
                              ELSE reply.payload.payment
               IN Respond(200,
                    [orderId |-> lcl.orderId,
                     paymentId |-> OrNull(payment.id),
                     paymentStatus |-> OrNull(payment.status),
                     receiptUrl |-> OrNull(payment.receipt_url),
                     totalMoney |-> [amount |-> lcl.amount.v,
                                     currency |-> lcl.currency]])

\* the caller submits the same request body once more
CallerRetries ==
  /\ hpc = "done"
  /\ attempt < MaxAttempts
  /\ attempt' = attempt + 1
  /\ hpc' = "start"
  /\ lcl' = NoLocals
  /\ calls' = <<>>
  /\ replies' = <<>>
  /\ responses' = <<>>
  /\ UNCHANGED <<nvars, reqvars, escaped, remote, uuids>>

Init ==
  /\ variant = "orders"
  /\ cart = <<>>
  /\ npc = "idle"
  /\ out = <<>>
  /\ again = <<>>
  /\ handler \in Handlers
  /\ env \in Environments
  /\ body \in Bodies
  /\ attempt = 1
  /\ hpc = "start"
  /\ lcl = NoLocals
  /\ calls = <<>>
  /\ replies = <<>>
  /\ responses = <<>>
  /\ escaped = FALSE
  /\ remote = [orders |-> 0, payments |-> 0, keys |-> {}]
  /\ uuids = 0

Next ==
  \/ Receive
  \/ LocationsReply
  \/ OrderReply
  \/ PaymentReply
  \/ CallerRetries

Spec == Init /\ [][Next]_vars

(***************************************************************************)
(* Claims about the normalizers, checked under SpecNorm                    *)
(***************************************************************************)
\* the trimmed catalog ID of a raw line, <<>> when the line is discarded
TrimmedId(line) ==
  IF line.kind = "object" /\ line.catalog_object_id.t = "string"
  THEN Trim(line.catalog_object_id.s)
  ELSE <<>>

\* the normalized modifier list of a raw line
ModifierList(v, line) ==
  IF v = "orders" THEN normalizeModifiers(line)
  ELSE IF line.modifier_catalog_object_ids.isArray
       THEN SortIds(DistinctTrimmed(line.modifier_catalog_object_ids.items,
                                    <<>>))
       ELSE <<>>

RawKey(v, line) ==
  IF v = "orders" THEN LineKey(TrimmedId(line), ModifierList(v, line))
  ELSE CheckoutLineKey(TrimmedId(line), ModifierList(v, line))

OutModifiers(v, line) ==
  IF v = "orders" THEN line.modifierEntries ELSE line.modifierIds

OutKey(v, line) ==
  IF v = "orders" THEN LineKey(line.catalogObjectId, line.modifierEntries)
  ELSE CheckoutLineKey(line.catalogObjectId, line.modifierIds)

KeptLines(c) == {i \in 1..Len(c) : TrimmedId(c[i]) # <<>>}

\* the output line an input line was grouped into
Slot(v, line) ==
  CHOOSE k \in 1..Len(out) : OutKey(v, out[k]) = RawKey(v, line)

RECURSIVE SumQuantities(_, _)
SumQuantities(c, indices) ==
  IF indices = {} THEN 0
  ELSE LET i == CHOOSE j \in indices : TRUE
       IN normalizeQuantity(c[i].quantity) + SumQuantities(c, indices \ {i})

RECURSIVE SumOut(_)
SumOut(lines) ==
  IF lines = <<>> THEN 0 ELSE Head(lines).quantity + SumOut(Tail(lines))

\* the kept input lines that are the first with their key, in cart order
FirstOccurrences(v, c) ==
  {i \in KeptLines(c) :
     \A j \in KeptLines(c) : j < i => RawKey(v, c[j]) # RawKey(v, c[i])}

\* C1: every returned line has an integer quantity >= 1, every modifier
\* entry of it has a quantity >= 1, and its catalog ID is not empty.
C1_QuantitiesAtLeastOne ==
  npc = "returned" =>
    \A k \in 1..Len(out) :
      /\ out[k].quantity >= 1
      /\ out[k].catalogObjectId # <<>>
      /\ variant = "orders" =>
           \A m \in 1..Len(out[k].modifierEntries) :
             out[k].modifierEntries[m].quantity >= 1

\* C4: two kept input lines are grouped into the same output line if and
\* only if they have the same trimmed catalog ID and the same normalized
\* modifier list.
C4_MergedIffSameIdentity ==
  npc = "returned" =>
    \A i, j \in KeptLines(cart) :
      (Slot(variant, cart[i]) = Slot(variant, cart[j]))
        <=> /\ TrimmedId(cart[i]) = TrimmedId(cart[j])
            /\ ModifierList(variant, cart[i]) = ModifierList(variant, cart[j])

\* C5: each returned line carries the sum of the coerced quantities of the
\* input lines sharing its grouping key; the groups come in order of first
\* occurrence, each with the modifier list of its first occurrence; the
\* output total equals the total over the kept input lines.
C5_QuantitiesSum ==
  npc = "returned" =>
    LET firsts == FirstOccurrences(variant, cart) IN
      /\ Len(out) = Cardinality(firsts)
      /\ \A k \in 1..Len(out) :
           \E i \in firsts :
             /\ Cardinality({j \in firsts : j < i}) = k - 1
             /\ out[k].catalogObjectId = TrimmedId(cart[i])
             /\ OutModifiers(variant, out[k]) = ModifierList(variant, cart[i])
             /\ out[k].quantity =
                  SumQuantities(cart,
                    {j \in KeptLines(cart) :
                       RawKey(variant, cart[j]) = RawKey(variant, cart[i])})
      /\ SumOut(out) = SumQuantities(cart, KeptLines(cart))

\* C5 witness: two input lines were grouped and their quantities added
C5_Witness ==
  /\ npc = "returned"
  /\ Len(cart) = 2
  /\ Len(out) = 1
  /\ normalizeQuantity(cart[1].quantity) = 2
  /\ normalizeQuantity(cart[2].quantity) = 3
  /\ out[1].quantity = 5

\* C6: normalizing the returned lines again yields the same set of lines.
C6_Idempotent ==
  npc = "again" =>
    {out[k] : k \in 1..Len(out)} = {again[k] : k \in 1..Len(again)}

(***************************************************************************)
(* Claims about the handlers, checked under Spec                           *)
(***************************************************************************)
PathIndex(path) ==
  IF \E i \in 1..Len(calls) : calls[i].path = path
  THEN CHOOSE i \in 1..Len(calls) : calls[i].path = path
  ELSE 0

\* the create-order call has settled with a parsed success response
OrderSucceeded ==
  /\ PathIndex("/v2/orders") # 0
  /\ Len(replies) >= PathIndex("/v2/orders")
  /\ replies[PathIndex("/v2/orders")].kind = "response"
  /\ replies[PathIndex("/v2/orders")].ok

\* the order of the create-order response
RepliedOrder ==
  LET reply == replies[PathIndex("/v2/orders")] IN
    IF reply.payload.isNull THEN NoOrder ELSE reply.payload.order

RepliedAmount ==
  IF RepliedOrder.hasTotal THEN RepliedOrder.amount ELSE Undefined

AnsweredTotalError ==
  /\ hpc = "done"
  /\ Len(responses) = 1
  /\ responses[1].status = 500
  /\ responses[1].body = [error |-> "Unable to determine order total for payment."]
  /\ PathIndex("/v2/payments") = 0

\* C2 as stated: a payment call is sent only if the order response carried
\* an order ID and a total amount that is a finite number > 0; a missing,
\* non-numeric, zero or negative total ends in the 500 "unable to determine
\* order total" response with no payment call.
C2_PaymentOnlyForPositiveNumber ==
  /\ PathIndex("/v2/payments") # 0 =>
       /\ OrderSucceeded
       /\ Truthy(RepliedOrder.id)
       /\ RepliedAmount.t = "number"
       /\ RepliedAmount.n > 0
  /\ (handler # "orders" /\ OrderSucceeded
        /\ (RepliedAmount.t # "number" \/ RepliedAmount.n <= 0)) =>
       AnsweredTotalError

\* C2 amended: a payment call is sent only if the order response carried an
\* order ID and a total amount whose Number() coercion is finite and > 0;
\* a total that is missing or coerces to NaN, zero or a negative number
\* ends in the 500 "unable to determine order total" response with no
\* payment call.
C2_PaymentOnlyForPositiveCoercedTotal ==
  /\ PathIndex("/v2/payments") # 0 =>
       /\ OrderSucceeded
       /\ Truthy(RepliedOrder.id)
       /\ ~ToNumber(RepliedAmount).nan
       /\ ToNumber(RepliedAmount).v > 0
       /\ calls[PathIndex("/v2/payments")].payload.amount_money.amount =
            ToNumber(RepliedAmount).v
  /\ (handler # "orders" /\ OrderSucceeded
        /\ (ToNumber(RepliedAmount).nan \/ ToNumber(RepliedAmount).v <= 0)) =>
       AnsweredTotalError

\* C2 witness: a payment call was sent for a total the response carried as
\* the string "100"
C2_Witness ==
  /\ PathIndex("/v2/payments") # 0
  /\ RepliedAmount = Str(<<"1", "0", "0">>)
  /\ calls[PathIndex("/v2/payments")].payload.amount_money.amount = 1000

\* the request's cart yields no valid line
NoValidLine ==
  \/ ~body.parsed
  \/ ~body.cart.isArray
  \/ \A i \in 1..Len(body.cart.items) : TrimmedId(body.cart.items[i]) = <<>>

\* C3: a create-order request whose cart yields no valid line is answered
\* 400 with an error message, never 500, and no gateway call is made.
C3_NoValidLineIs400 ==
  (handler = "orders" /\ hpc = "done" /\ NoValidLine) =>
    /\ ~escaped
    /\ Len(responses) = 1
    /\ responses[1].status = 400
    /\ DOMAIN responses[1].body = {"error"}
    /\ calls = <<>>

\* the base the stated precedence selects: sandbox app-id pattern, then
\* production app-id pattern, then the explicit flag, then sandbox
PrecedenceBase(e) ==
  LET appId == OrElse(getEnv(e, "SQUARE_APP_ID"),
                      OrElse(getEnv(e, "PUBLIC_SQUARE_APP_ID"), Str(<<>>))).s
      flag == ToLowerCase(OrElse(getEnv(e, "SQUARE_ENVIRONMENT"), Str(<<>>)).s)
  IN IF StartsWith(appId, SandboxPrefix) \/ Includes(appId, SandboxMarker)
     THEN SandboxBase
     ELSE IF Includes(appId, ProductionMarker) THEN ProductionBase
     ELSE IF flag = ProductionFlag THEN ProductionBase
     ELSE SandboxBase

\* C7: in every handler every outbound call of a request goes to the base
\* the precedence app-id sandbox pattern > app-id production pattern >
\* explicit flag > sandbox selects.
C7_BaseByPrecedence ==
  \A i \in 1..Len(calls) : calls[i].base = PrecedenceBase(env)

\* C8: a request ends with exactly one response, of status 200, 400 or
\* 500; a non-200 body is an object with a string error field; nothing
\* escapes the handler; before its response the handler is at its start
\* or awaiting the one gateway call it has issued.
C8_OneJsonResponse ==
  /\ ~escaped
  /\ Len(responses) <= 1
  /\ hpc # "done" =>
       /\ responses = <<>>
       /\ hpc \in {"start", "awaitLocations", "awaitOrder", "awaitPayment"}
       /\ hpc # "start" => Len(calls) = Len(replies) + 1
  /\ hpc = "done" =>
       /\ Len(responses) = 1
       /\ responses[1].status \in {200, 400, 500}
       /\ responses[1].status # 200 =>
            /\ DOMAIN responses[1].body = {"error"}
            /\ responses[1].body.error \in STRING

\* C8 witness: the payment call was rejected by the transport after the
\* order was created, and the request ended with a 500 error body
C8_Witness ==
  /\ hpc = "done"
  /\ PathIndex("/v2/payments") # 0
  /\ replies[Len(replies)].kind = "reject"
  /\ responses = <<[status |-> 500, body |-> [error |-> "fetch failed"]]>>

\* C9: when the caller submits the same body again, the remote service,
\* which applies a call once per idempotency key, creates no second order
\* and captures no second payment.
C9_RetryAppliesOnce ==
  /\ remote.orders <= 1
  /\ remote.payments <= 1

PathRank(path) ==
  CASE path = "/v2/locations" -> 1
    [] path = "/v2/orders" -> 2
    [] OTHER -> 3

Failed(reply) == reply.kind # "response" \/ ~reply.ok

\* C10: the outbound calls of one request are list-locations, order
\* creation, payment capture, in that order and each at most once, a call
\* being issued only after the previous one succeeded; a failed call ends
\* the request with 500 and no further call.
C10_SequentialNoRetry ==
  /\ \A i, j \in 1..Len(calls) :
       i < j => PathRank(calls[i].path) < PathRank(calls[j].path)
  /\ \A i \in 1..Len(calls) :
       calls[i].path \in {"/v2/locations", "/v2/orders", "/v2/payments"}
  /\ PathIndex("/v2/payments") # 0 =>
       handler # "orders" /\ PathIndex("/v2/orders") # 0
  /\ Len(replies) <= Len(calls)
  /\ Len(calls) <= Len(replies) + 1
  /\ \A i \in 1..Len(replies) : i < Len(calls) => ~Failed(replies[i])
  /\ hpc = "done" => Len(replies) = Len(calls)
  /\ \A i \in 1..Len(replies) :
       Failed(replies[i]) =>
         /\ hpc = "done"
         /\ i = Len(calls)
         /\ Len(responses) = 1
         /\ responses[1].status = 500

\* C10 witness: the payment call failed after the order was created; the
\* request ended with 500 after exactly three calls
C10_Witness ==
  /\ hpc = "done"
  /\ Len(calls) = 3
  /\ calls[3].path = "/v2/payments"
  /\ ~Failed(replies[2])
  /\ Failed(replies[3])
  /\ remote.orders >= 1
  /\ responses[1].status = 500

\* the request's sourceId is missing, not a string, or only whitespace
SourceIdIsBlank ==
  \/ ~body.parsed
  \/ body.sourceId.t # "string"
  \/ \A i \in 1..Len(body.sourceId.s) : body.sourceId.s[i] \in Whitespace

\* the checkout normalizer returns, and returns no line, for the request's cart
CartNormalizesToNoLine ==
  LET rawCart == IF body.parsed /\ body.cart.isArray THEN body.cart.items
                 ELSE <<>>
      normalized == checkoutNormalizeCartLines(rawCart)
  IN ~normalized.threw /\ normalized.lines = <<>>

\* C11: in the checkout handlers the payment-source check comes first, the
\* cart check second, and both before any gateway call: a request whose
\* sourceId is missing, non-string or blank is answered 400 "Missing payment
\* source token." whatever its cart is; a request with a valid sourceId whose
\* cart normalizes to no line is answered 400 "Cart is empty or invalid.";
\* in both cases no gateway call is made, and a gateway call is only ever
\* made for a valid sourceId and a cart that gave at least one line.
C11_SourceThenCartBeforeCalls ==
  handler # "orders" =>
    /\ calls # <<>> => ~SourceIdIsBlank /\ ~CartNormalizesToNoLine
    /\ (hpc = "done" /\ SourceIdIsBlank) =>
         /\ responses = <<[status |-> 400,
                           body |-> [error |-> "Missing payment source token."]]>>
         /\ calls = <<>>
         /\ replies = <<>>
         /\ ~escaped
    /\ (hpc = "done" /\ ~SourceIdIsBlank /\ CartNormalizesToNoLine) =>
         /\ responses = <<[status |-> 400,
                           body |-> [error |-> "Cart is empty or invalid."]]>>
         /\ calls = <<>>
         /\ replies = <<>>
         /\ ~escaped

\* C11 witness: a whitespace-only sourceId sent with a cart whose only entry
\* is null was answered by the payment-source check, before the cart was
\* looked at
C11_Witness ==
  /\ handler # "orders"
  /\ hpc = "done"
  /\ body.parsed
  /\ body.sourceId = Str(<<" ">>)
  /\ body.cart = Arr(<<NullLine>>)
  /\ responses = <<[status |-> 400,
                    body |-> [error |-> "Missing payment source token."]]>>
  /\ calls = <<>>

\* the trimmed non-empty IDs of the valid entries of a line's structured list
StructuredIds(line) ==
  IF line.modifiers.isArray
  THEN {Trim(line.modifiers.items[m].catalog_object_id.s) :
          m \in {n \in 1..Len(line.modifiers.items) :
                   /\ line.modifiers.items[n].isObject
                   /\ line.modifiers.items[n].catalog_object_id.t = "string"}}
       \ {<<>>}
  ELSE {}

\* the trimmed non-empty IDs of a line's flat list
FlatIds(line) ==
  IF line.modifier_catalog_object_ids.isArray
  THEN {Trim(line.modifier_catalog_object_ids.items[m].s) :
          m \in {n \in 1..Len(line.modifier_catalog_object_ids.items) :
                   line.modifier_catalog_object_ids.items[n].t = "string"}}
       \ {<<>>}
  ELSE {}

\* the output line that the i-th input line, the first of its key, started
OutOfFirst(i) ==
  out[Cardinality({j \in FirstOccurrences("orders", cart) : j <= i})]

\* C12: in the create-order normalizer a line whose structured list has a
\* valid entry gets its modifiers from that list alone, the flat list being
\* ignored; any other line gets one modifier entry per distinct trimmed
\* non-empty ID of its flat list, each with quantity 1, whether or not the
\* flat list repeats an ID.
C12_StructuredElseFlatOnce ==
  (variant = "orders" /\ npc = "returned") =>
    \A i \in FirstOccurrences("orders", cart) :
      LET entries == OutOfFirst(i).modifierEntries
          ids == {entries[e].catalogObjectId : e \in 1..Len(entries)}
      IN IF StructuredIds(cart[i]) # {}
         THEN ids = StructuredIds(cart[i])
         ELSE /\ ids = FlatIds(cart[i])
              /\ Len(entries) = Cardinality(FlatIds(cart[i]))
              /\ \A e \in 1..Len(entries) : entries[e].quantity = 1

\* the JSON body of the request's create-payment call
SentPayment == calls[PathIndex("/v2/payments")].payload

\* the JSON body of the request's create-order call
SentOrder == calls[PathIndex("/v2/orders")].payload

\* the currency the created order gives, "USD" when it gives none
RepliedCurrency ==
  IF RepliedOrder.hasTotal /\ RepliedOrder.currency.t \notin {"undefined", "null"}
  THEN RepliedOrder.currency.s
  ELSE <<"U", "S", "D">>

====
